---- MODULE Spec2Model ----
(***************************************************************************)
(* Overtime request engine: submit (POST /api/v1/overtime-requests),       *)
(* decide (POST /api/v1/overtime-requests/{id}/approvals), the background  *)
(* worker (draft expiration, approval escalation) and the idempotency      *)
(* gate, modelled against one shared relational store.                     *)
(*                                                                         *)
(* Every await of a handler that reads or writes the store is one atomic   *)
(* step; a prisma.$transaction body is split where it reads rows that      *)
(* another transaction may commit in between (READ COMMITTED).  The model  *)
(* covers the writes made by the application code; time is an integer      *)
(* grid of MinutesPerUnit-minute instants inside one calendar week.        *)
(***************************************************************************)
EXTENDS Integers, Sequences, FiniteSets, TLC

----------------------------------------------------------------------------
(* Bounds *)

\* Instants are 0..MaxTime; a window is a pair start < end of instants.
MaxTime == 2
\* Number of handler invocations (submit, decide, worker run, draft insert)
\* that may be started in one behaviour.
MaxOps == 3

MinutesPerUnit == 2 * 60

Users == {"u1"}
Approvers == {"m1", "m2"}
Keys == {"k1", "k2"}
SubmitCalls == {"s1", "s2"}
DecideCalls == {"d1", "d2"}
Workers == {"w1", "w2"}
LegacyCalls == {"v1", "v2"}

\* Calls of one kind are started in the order of their names.
CallOrder(p) == CASE p \in {"s1", "d1", "w1", "v1"} -> 1 [] OTHER -> 2

Times == 0..MaxTime
Windows == {w \in Times \X Times : w[1] < w[2]}
\* The same day with one more window, apart from all the others
DayWindows == Windows \cup {<<MaxTime + 1, MaxTime + 2>>}
\* One window of the daily maximum on each of four days of the week
WeekWindows == {<<3 * d, 3 * d + 2>> : d \in 0..3}

----------------------------------------------------------------------------
(* Program constants *)

\* defaultPolicies.maxOvertimePerDay / maxOvertimePerWeek (minutes)
maxOvertimePerDay == 4 * 60
maxOvertimePerWeek == 12 * 60
\* max_level written by submit
max_level == 3

NotBlocking == {"REJECTED", "CANCELED", "EXPIRED"}
Decisions == {"APPROVED", "REJECTED", "SKIPPED"}

\* What getApprovalChain yields for the owner: no chain (found = FALSE, also
\* when the lookup throws), or a chain with the approver ids of its steps in
\* step_order; a chain row may have no step rows.
ChainOutcomes ==
  {[found |-> FALSE, steps |-> <<>>],
   [found |-> TRUE, steps |-> <<>>],
   [found |-> TRUE, steps |-> <<"m1", "m2">>]}

NullApprover == "null"

VARIABLES
  requests,        \* OvertimeRequest rows, id = index
  approvalSteps,   \* ApprovalStep rows of each request, indexed by step_order
  auditEntries,    \* AuditEntry rows in insertion (performed_at) order
  idempotencyKeys, \* IdempotencyKey rows by key
  orphanSteps,     \* ApprovalStep rows whose request row was never committed
  sub,             \* state of each submit call
  dec,             \* state of each decide call
  wrk,             \* state of each worker run
  leg,             \* state of each call of the runWithIdempotency-based submit
  fnRuns,          \* per key, how often runWithIdempotency invoked fn
  started          \* handler invocations started so far

vars == <<requests, approvalSteps, auditEntries, idempotencyKeys, orphanSteps, sub, dec,
          wrk, leg, fnRuns, started>>
db == <<requests, approvalSteps, auditEntries, idempotencyKeys, orphanSteps>>

----------------------------------------------------------------------------
(* Pure helpers *)

RECURSIVE SumSeq(_)
SumSeq(s) == IF s = <<>> THEN 0 ELSE Head(s) + SumSeq(Tail(s))

ReqIds == 1..Len(requests)

\* Math.floor((endTime - startTime) / 60000)
DurationMin(s, e) == (e - s) * MinutesPerUnit

\* Variant: ranges built with the default bounds '[)'
RangeOverlapHalfOpen(a1, a2, b1, b2) == a1 < b2 /\ b1 < a2

\* tstzrange(a1,a2,'[]') && tstzrange(b1,b2,'[]'): closed intervals
RangeOverlapClosed(a1, a2, b1, b2) == a1 <= b2 /\ b1 <= a2

\* start_time < endTime AND end_time > startTime (prisma findMany filter)
RangeOverlapOpen(a1, a2, b1, b2) == a1 < b2 /\ a2 > b1

\* Rows that count for the overlap queries
Blocking(r) == r.is_active /\ r.status \notin NotBlocking

\* crypto.createHash("sha256").update(JSON.stringify(x)): an injective
\* encoding of the serialised fields, <<kind, a, b, c>>
Sha256(kind, a, b, c) == <<kind, a, b, c>>
NullHash == <<>>

StatusCode(s) ==
  CASE s = "PENDING" -> 0 [] s = "APPROVED" -> 1 [] s = "REJECTED" -> 2
    [] s = "SKIPPED" -> 3 [] s = "SUBMITTED" -> 4 [] s = "DRAFT" -> 5
    [] s = "EXPIRED" -> 6 [] s = "CANCELED" -> 7 [] OTHER -> 8

RequestEntity(id) == <<id, 0>>
StepEntity(id, order) == <<id, order>>

AuditRow(table, entity, action, sha, prev) ==
  [entity_table |-> table, entity_id |-> entity, action |-> action,
   sha256 |-> sha, previous_sha256 |-> prev]

\* Audit rows of one entity, oldest first
ChainOf(table, entity) ==
  SelectSeq(auditEntries, LAMBDA a : a.entity_table = table /\ a.entity_id = entity)

----------------------------------------------------------------------------
(* Submit: POST /api/v1/overtime-requests *)

IdleSub == [pc |-> "idle", userId |-> "u1", key |-> "k1", start |-> 0, end |-> 1,
            code |-> 0, body |-> 0, conflicting_ids |-> {}, violations |-> {}]

\* The response of a finished call: its status code, payload and error
\* details.  The locals of the handler (userId, start, end) end with the
\* call.  Lines 240-251: only ValidationError, ConflictError and
\* AuthenticationError keep their details; any other error is replaced by a
\* plain "Internal server error", so no response carries violations.
SubmitDone(c, code, body, ids) ==
  [IdleSub EXCEPT !.pc = "done", !.key = c.key, !.code = code, !.body = body,
                  !.conflicting_ids = ids]

\* validateOvertimeRequest of lib/overtime: the violations it collects
OverlapViolation(u, s, e) ==
  \E i \in ReqIds : /\ requests[i].userId = u
                    /\ Blocking(requests[i])
                    /\ RangeOverlapOpen(requests[i].start_time, requests[i].end_time, s, e)

DailyViolation(s, e) == DurationMin(s, e) > maxOvertimePerDay

WeeklyMinutes(u) ==
  SumSeq([i \in ReqIds |->
            IF requests[i].userId = u /\ Blocking(requests[i])
            THEN requests[i].total_minutes ELSE 0])

WeeklyViolation(u, s, e) == WeeklyMinutes(u) + DurationMin(s, e) > maxOvertimePerWeek

\* The violations array: every rule is evaluated, none ends the function
Violations(u, s, e, attendance, lateDays) ==
  (IF ~attendance THEN {"attendance"} ELSE {})
    \cup (IF OverlapViolation(u, s, e) THEN {"overlap"} ELSE {})
    \cup (IF DailyViolation(s, e) THEN {"daily"} ELSE {})
    \cup (IF WeeklyViolation(u, s, e) THEN {"weekly"} ELSE {})
    \cup (IF lateDays THEN {"deadline"} ELSE {})

\* valid: violations.length === 0
ValidationValid(u, s, e, attendance, lateDays) ==
  Violations(u, s, e, attendance, lateDays) = {}

\* Lines 83-126: the handler is entered with a well-formed body (key
\* present, start < end); idempotency lookup, then business validation.  A
\* stored response is returned as is; a failed validation throws
\* BusinessRuleViolation, which the catch block maps to a plain 500.
SubmitLookupResult(c, row, valid) ==
  IF row.exists /\ row.response_body # <<>>
  THEN SubmitDone(c, 200, row.response_body[1], {})
  ELSE IF ~valid
  THEN SubmitDone(c, 500, 0, {})
  ELSE [c EXCEPT !.pc = "precheck"]

SubmitLookup(p, u, k, w, attendance, lateDays) ==
  LET c == [IdleSub EXCEPT !.userId = u, !.key = k, !.start = w[1], !.end = w[2]] IN
  /\ sub[p].pc = "idle"
  /\ \A q \in SubmitCalls : CallOrder(q) < CallOrder(p) => sub[q].pc # "idle"
  /\ started < MaxOps
  /\ started' = started + 1
  /\ sub' = [sub EXCEPT ![p] =
               SubmitLookupResult(c, idempotencyKeys[k],
                                  ValidationValid(u, w[1], w[2], attendance, lateDays))]
  /\ UNCHANGED <<db, dec, wrk, leg, fnRuns>>

\* Lines 131-150: SELECT ... FOR UPDATE SKIP LOCKED over the committed rows
OverlapIds(u, s, e) ==
  {i \in ReqIds : /\ requests[i].userId = u
                  /\ Blocking(requests[i])
                  /\ RangeOverlapClosed(requests[i].start_time, requests[i].end_time, s, e)}

SubmitPrecheck(p) ==
  LET c == sub[p]
      overlaps == OverlapIds(c.userId, c.start, c.end)
  IN
  /\ c.pc = "precheck"
  /\ IF overlaps # {}
     THEN sub' = [sub EXCEPT ![p] = SubmitDone(c, 409, 0, overlaps)]
     ELSE sub' = [sub EXCEPT ![p].pc = "insert"]
  /\ UNCHANGED <<db, dec, wrk, leg, fnRuns, started>>

\* overtime_request_overlap_active_idx: UNIQUE (userId, tstzrange(start,end))
\* WHERE is_active = true
UniqueIndexViolation(u, s, e) ==
  \E i \in ReqIds : /\ requests[i].is_active
                    /\ requests[i].userId = u
                    /\ requests[i].start_time = s
                    /\ requests[i].end_time = e

NewRequest(u, s, e, status) ==
  [userId |-> u, start_time |-> s, end_time |-> e, total_minutes |-> DurationMin(s, e),
   status |-> status, is_active |-> TRUE, row_version |-> 1,
   current_level |-> 0, max_level |-> max_level]

NewStep(approver) == [status |-> "PENDING", approver_id |-> approver, row_version |-> 1]

\* createApprovalSteps from the configured chain, else the 3-step fallback
StepsFor(chain) ==
  IF ~chain.found
  THEN [k \in 1..3 |-> NewStep(NullApprover)]
  ELSE [k \in 1..Len(chain.steps) |-> NewStep(chain.steps[k])]

CreateAudit(id, s, e) ==
  AuditRow("OvertimeRequest", RequestEntity(id), "CREATE", Sha256(1, id, s, e), NullHash)

\* Lines 170-187: createApprovalSteps writes its rows through the global
\* prisma client, outside the transaction; only the fallback rows of the
\* catch handler are written through tx.  Rows written outside stay when the
\* transaction rolls back.
StepsOutsideTx(chain) == IF chain.found THEN StepsFor(chain) ELSE <<>>

\* Lines 152-206: insert, approval steps, CREATE audit entry, commit.  The
\* insert fails on the unique index; auditOk = FALSE is an error of
\* tx.auditEntry.create (or of the commit), which rolls the transaction back.
SubmitInsert(p, chain, auditOk) ==
  LET c == sub[p]
      id == Len(requests) + 1
  IN
  /\ c.pc = "insert"
  /\ IF UniqueIndexViolation(c.userId, c.start, c.end)
     THEN /\ sub' = [sub EXCEPT ![p] = SubmitDone(c, 500, 0, {})]
          /\ UNCHANGED <<requests, approvalSteps, auditEntries, orphanSteps>>
     ELSE IF ~auditOk
     THEN /\ sub' = [sub EXCEPT ![p] = SubmitDone(c, 500, 0, {})]
          /\ orphanSteps' = orphanSteps \o StepsOutsideTx(chain)
          /\ UNCHANGED <<requests, approvalSteps, auditEntries>>
     ELSE /\ requests' = Append(requests, NewRequest(c.userId, c.start, c.end, "SUBMITTED"))
          /\ approvalSteps' = Append(approvalSteps, StepsFor(chain))
          /\ auditEntries' = Append(auditEntries, CreateAudit(id, c.start, c.end))
          /\ sub' = [sub EXCEPT ![p].pc = "store", ![p].body = id]
          /\ UNCHANGED orphanSteps
  /\ UNCHANGED <<idempotencyKeys, dec, wrk, leg, fnRuns, started>>

\* Lines 208-238: idempotencyKey.upsert (update touches used_at only)
UpsertKey(row, response) ==
  IF row.exists THEN row ELSE [exists |-> TRUE, response_body |-> <<response>>]

SubmitStore(p) ==
  LET c == sub[p] IN
  /\ c.pc = "store"
  /\ idempotencyKeys' = [idempotencyKeys EXCEPT ![c.key] = UpsertKey(@, c.body)]
  /\ sub' = [sub EXCEPT ![p] = SubmitDone(c, 201, c.body, {})]
  /\ UNCHANGED <<orphanSteps, requests, approvalSteps, auditEntries, dec, wrk, leg, fnRuns, started>>

SubmitCallOn(p, W) ==
  \/ \E u \in Users, k \in Keys, w \in W, attendance \in BOOLEAN, lateDays \in BOOLEAN :
       SubmitLookup(p, u, k, w, attendance, lateDays)
  \/ SubmitPrecheck(p)
  \/ \E chain \in ChainOutcomes, auditOk \in BOOLEAN : SubmitInsert(p, chain, auditOk)
  \/ SubmitStore(p)

SubmitCall(p) == SubmitCallOn(p, Windows)

Submit == \E p \in SubmitCalls : SubmitCall(p)

----------------------------------------------------------------------------
(* Decide: POST /api/v1/overtime-requests/{id}/approvals *)

IdleDec == [pc |-> "idle", requestId |-> 1, step_order |-> 1, status |-> "APPROVED",
            row_version |-> 0, actor |-> "m1", readStatus |-> "",
            code |-> 0, error |-> "", expected_version |-> 0, current_version |-> 0,
            current_status |-> "", res_request_status |-> "", is_final_approval |-> FALSE]

\* row_version 0 stands for "not supplied"; a supplied version is one the
\* client can have read: any value up to the current one, or one ahead.
VersionInputs(rid) ==
  {0} \cup (IF rid \in ReqIds THEN 1..(requests[rid].row_version + 1) ELSE {1})

\* An error response: status code, error class and its details
DecideFail(c, code, error) == [IdleDec EXCEPT !.pc = "done", !.code = code, !.error = error]

\* Variant: the read without the assigned-approver check
DecideReadResultAnyActor(c) ==
  IF c.requestId \notin ReqIds
  THEN DecideFail(c, 404, "NotFoundError")
  ELSE
    LET r == requests[c.requestId]
        steps == approvalSteps[c.requestId]
    IN
    IF c.step_order \notin DOMAIN steps
    THEN DecideFail(c, 404, "NotFoundError")
    ELSE IF steps[c.step_order].status # "PENDING"
    THEN [DecideFail(c, 409, "ConflictError") EXCEPT
            !.current_status = steps[c.step_order].status]
    ELSE IF c.row_version # 0 /\ r.row_version # c.row_version
    THEN [DecideFail(c, 409, "ConflictError") EXCEPT
            !.expected_version = c.row_version, !.current_version = r.row_version]
    ELSE [c EXCEPT !.pc = "tx", !.readStatus = r.status]

\* Lines 53-110: findUnique with approvals and the checks made on that read,
\* all before prisma.$transaction
DecideReadResult(c) ==
  IF c.requestId \notin ReqIds
  THEN DecideFail(c, 404, "NotFoundError")
  ELSE
    LET r == requests[c.requestId]
        steps == approvalSteps[c.requestId]
    IN
    IF c.step_order \notin DOMAIN steps
    THEN DecideFail(c, 404, "NotFoundError")
    ELSE IF steps[c.step_order].approver_id # c.actor
    THEN DecideFail(c, 403, "AuthorizationError")
    ELSE IF steps[c.step_order].status # "PENDING"
    THEN [DecideFail(c, 409, "ConflictError") EXCEPT
            !.current_status = steps[c.step_order].status]
    ELSE IF c.row_version # 0 /\ r.row_version # c.row_version
    THEN [DecideFail(c, 409, "ConflictError") EXCEPT
            !.expected_version = c.row_version, !.current_version = r.row_version]
    ELSE [c EXCEPT !.pc = "tx", !.readStatus = r.status]

DecideRead(p, rid, order, status, version, actor) ==
  /\ dec[p].pc = "idle"
  /\ \A q \in DecideCalls : CallOrder(q) < CallOrder(p) => dec[q].pc # "idle"
  /\ started < MaxOps
  /\ started' = started + 1
  /\ dec' = [dec EXCEPT ![p] =
               DecideReadResult([IdleDec EXCEPT !.requestId = rid, !.step_order = order,
                                                !.status = status, !.row_version = version,
                                                !.actor = actor])]
  /\ UNCHANGED <<db, sub, wrk, leg, fnRuns>>

\* Lines 116-124: approvalStep.update by id
UpdateStep(step, status) ==
  [step EXCEPT !.status = status, !.row_version = @ + 1]

PendingSteps(steps) == {k \in DOMAIN steps : steps[k].status = "PENDING"}

\* Variant: a rejection closes the request only when no step is left PENDING
UpdateRequestWhenChainDone(r, status, pending) ==
  IF status = "APPROVED" /\ pending = {}
  THEN [r EXCEPT !.status = "APPROVED", !.current_level = r.max_level,
                 !.row_version = @ + 1]
  ELSE IF status = "REJECTED" /\ pending = {}
  THEN [r EXCEPT !.status = "REJECTED", !.row_version = @ + 1]
  ELSE r

\* Lines 136-171: the request update decided from the steps as updated
UpdateRequestOnDecision(r, status, pending) ==
  IF status = "APPROVED" /\ pending = {}
  THEN [r EXCEPT !.status = "APPROVED", !.current_level = r.max_level,
                 !.row_version = @ + 1]
  ELSE IF status = "REJECTED"
  THEN [r EXCEPT !.status = "REJECTED", !.row_version = @ + 1]
  ELSE r

\* newRequestStatus: starts from the status read before the transaction
RequestStatusAfter(readStatus, status, pending) ==
  IF status = "APPROVED" /\ pending = {} THEN "APPROVED"
  ELSE IF status = "REJECTED" THEN "REJECTED"
  ELSE readStatus

\* Lines 183-190: auditEntry.findFirst for the step, newest first
LastAuditHash(table, entity) ==
  LET chain == ChainOf(table, entity)
  IN IF chain = <<>> THEN NullHash ELSE chain[Len(chain)].sha256

\* Lines 173-208: the ApprovalStep audit entry; the hash covers auditDiff
DecisionAudit(c, statusAfter) ==
  AuditRow("ApprovalStep", StepEntity(c.requestId, c.step_order), "UPDATE",
           Sha256(4, c.step_order, StatusCode(c.status), StatusCode(statusAfter)),
           LastAuditHash("ApprovalStep", StepEntity(c.requestId, c.step_order)))

\* Lines 114-237: the transaction and the success response
DecideTx(p) ==
  LET c == dec[p]
      rid == c.requestId
      newSteps == [approvalSteps[rid] EXCEPT ![c.step_order] = UpdateStep(@, c.status)]
      pending == PendingSteps(newSteps)
      newReq == UpdateRequestOnDecision(requests[rid], c.status, pending)
  IN
  /\ c.pc = "tx"
  /\ approvalSteps' = [approvalSteps EXCEPT ![rid] = newSteps]
  /\ requests' = [requests EXCEPT ![rid] = newReq]
  /\ auditEntries' = Append(auditEntries,
                            DecisionAudit(c, RequestStatusAfter(c.readStatus, c.status, pending)))
  /\ dec' = [dec EXCEPT ![p] =
               [c EXCEPT !.pc = "done", !.code = 200, !.actor = "m1", !.readStatus = "",
                         !.res_request_status = newReq.status,
                         !.is_final_approval = (pending = {})]]
  /\ UNCHANGED <<orphanSteps, idempotencyKeys, sub, wrk, leg, fnRuns, started>>

Decide ==
  \E p \in DecideCalls :
    \/ \E rid \in 1..(Len(requests) + 1), order \in 1..3, status \in Decisions,
          actor \in Approvers :
         \E version \in VersionInputs(rid) :
           DecideRead(p, rid, order, status, version, actor)
    \/ DecideTx(p)

----------------------------------------------------------------------------
(* Background worker: expireDraftRequests, escalateStalleddApprovals *)

IdleWrk == [pc |-> "idle", drafts |-> {}, stalled |-> {}]

\* A row saved without a status takes the column default 'DRAFT'.  The
\* unique index applies to it like to any active row.  One draft is saved
\* per behaviour: none is saved while a row is DRAFT or was expired from it.
DraftRows ==
  {i \in ReqIds : \/ requests[i].status = "DRAFT"
                  \/ \E n \in DOMAIN auditEntries :
                       /\ auditEntries[n].entity_id = RequestEntity(i)
                       /\ auditEntries[n].action = "EXPIRE"}

InsertDraft(u, w) ==
  /\ started < MaxOps
  /\ DraftRows = {}
  /\ ~UniqueIndexViolation(u, w[1], w[2])
  /\ started' = started + 1
  /\ requests' = Append(requests, NewRequest(u, w[1], w[2], "DRAFT"))
  /\ approvalSteps' = Append(approvalSteps, <<>>)
  /\ UNCHANGED <<orphanSteps, auditEntries, idempotencyKeys, sub, dec, wrk, leg, fnRuns>>

\* Rows are created in id order, so "created_at < cutoff" selects the rows
\* with id <= cutoff for some cutoff the clock decides.
\* Lines 293-303: the draft query (autocommit, outside any transaction)
ExpiredDrafts(cutoff) ==
  {i \in ReqIds : requests[i].status = "DRAFT" /\ requests[i].is_active /\ i <= cutoff}

WorkerStart(p, cutoff) ==
  /\ wrk[p].pc = "idle"
  /\ \A q \in Workers : CallOrder(q) < CallOrder(p) => wrk[q].pc # "idle"
  /\ started < MaxOps
  /\ started' = started + 1
  /\ wrk' = [wrk EXCEPT ![p] = [pc |-> "expire", drafts |-> ExpiredDrafts(cutoff),
                                stalled |-> {}]]
  /\ UNCHANGED <<db, sub, dec, leg, fnRuns>>

ExpireAudit(id) ==
  AuditRow("OvertimeRequest", RequestEntity(id), "EXPIRE", Sha256(2, id, 0, 0), NullHash)

ExpireRequest(r) == [r EXCEPT !.status = "EXPIRED", !.row_version = @ + 1]

\* The for loops take the selected rows in the order the query returned
\* them: heap order, that is by id and step_order.
FirstOf(S) == CHOOSE e \in S : \A f \in S : e[1] < f[1] \/ (e[1] = f[1] /\ e[2] <= f[2])

\* Lines 307-344: one transaction per selected draft
WorkerExpire(p) ==
  LET id == FirstOf(wrk[p].drafts \X {0})[1] IN
  /\ wrk[p].pc = "expire"
  /\ wrk[p].drafts # {}
  /\ requests' = [requests EXCEPT ![id] = ExpireRequest(@)]
  /\ auditEntries' = Append(auditEntries, ExpireAudit(id))
  /\ wrk' = [wrk EXCEPT ![p].drafts = @ \ {id}]
  /\ UNCHANGED <<orphanSteps, approvalSteps, idempotencyKeys, sub, dec, leg, fnRuns, started>>

\* Lines 354-364: the stalled-step query
StalledSteps(cutoff) ==
  {e \in ReqIds \X (1..3) :
     /\ e[2] \in DOMAIN approvalSteps[e[1]]
     /\ approvalSteps[e[1]][e[2]].status = "PENDING"
     /\ e[1] <= cutoff}

WorkerSelectStalled(p, cutoff) ==
  /\ wrk[p].pc = "expire"
  /\ wrk[p].drafts = {}
  /\ LET sel == StalledSteps(cutoff) IN
       wrk' = [wrk EXCEPT ![p].pc = IF sel = {} THEN "done" ELSE "escalate",
                          ![p].stalled = sel]
  /\ UNCHANGED <<db, sub, dec, leg, fnRuns, started>>

EscalateAudit(e) ==
  AuditRow("ApprovalStep", e, "ESCALATE", Sha256(3, e[1], e[2], 0), NullHash)

EscalateStep(step) == [step EXCEPT !.status = "SKIPPED", !.row_version = @ + 1]

\* Variant: the request is closed with every escalated step
EscalateRequestAlways(r, steps) == [r EXCEPT !.status = "EXPIRED", !.row_version = @ + 1]

\* Lines 409-432: the request is closed when no step is left PENDING
EscalateRequest(r, steps) ==
  IF PendingSteps(steps) = {}
  THEN [r EXCEPT !.status = "EXPIRED", !.row_version = @ + 1]
  ELSE r

\* Lines 368-439: one transaction per selected step
WorkerEscalate(p) ==
  LET e == FirstOf(wrk[p].stalled)
      newSteps == [approvalSteps[e[1]] EXCEPT ![e[2]] = EscalateStep(@)]
  IN
  /\ wrk[p].pc = "escalate"
  /\ wrk[p].stalled # {}
  /\ approvalSteps' = [approvalSteps EXCEPT ![e[1]] = newSteps]
  /\ auditEntries' = Append(auditEntries, EscalateAudit(e))
  /\ requests' = [requests EXCEPT ![e[1]] = EscalateRequest(@, newSteps)]
  /\ wrk' = [wrk EXCEPT ![p].stalled = @ \ {e},
                        ![p].pc = IF wrk[p].stalled = {e} THEN "done" ELSE "escalate"]
  /\ UNCHANGED <<orphanSteps, idempotencyKeys, sub, dec, leg, fnRuns, started>>

\* One run of the worker process
WorkerRun(p) ==
  \/ \E cutoff \in 0..Len(requests) : WorkerStart(p, cutoff)
  \/ WorkerExpire(p)
  \/ \E cutoff \in 0..Len(requests) : WorkerSelectStalled(p, cutoff)
  \/ WorkerEscalate(p)

Worker ==
  \/ \E u \in Users, w \in Windows : InsertDraft(u, w)
  \/ \E p \in Workers : WorkerRun(p)

\* The worker process is started again and again; by the time of a run every
\* row is older than both cutoffs.
SweepStart(p) ==
  /\ wrk[p].pc \in {"idle", "done"}
  /\ wrk' = [wrk EXCEPT ![p] = [pc |-> "expire", drafts |-> ExpiredDrafts(Len(requests)),
                                stalled |-> {}]]
  /\ UNCHANGED <<db, sub, dec, leg, fnRuns, started>>

SweepRun(p) ==
  \/ SweepStart(p)
  \/ WorkerExpire(p)
  \/ WorkerSelectStalled(p, Len(requests))
  \/ WorkerEscalate(p)

----------------------------------------------------------------------------
(* Submit through the idempotency gate:                                    *)
(* src/app/api/v1/overtime-requests/route.ts with lib/idempotency.ts       *)

IdleLeg == [pc |-> "idle", userId |-> "u1", key |-> "k1", start |-> 0, end |-> 1,
            retry |-> FALSE, code |-> 0, body |-> <<>>, violations |-> {}]

LegacyDone(c, code, body) ==
  [IdleLeg EXCEPT !.pc = "done", !.key = c.key, !.retry = c.retry, !.code = code,
                  !.body = body]

KeyCompleted(k) == idempotencyKeys[k].exists /\ idempotencyKeys[k].response_body # <<>>

\* Route lines 72-112: validateBusinessRules runs before the gate is entered; a
\* violation is answered with 422 and the violations array in its details.
\* retry records that the key already held a stored response when the call
\* came in.
LegacyValidate(p, u, k, w, attendance, lateDays) ==
  LET c == [IdleLeg EXCEPT !.userId = u, !.key = k, !.start = w[1], !.end = w[2],
                           !.retry = KeyCompleted(k)]
  IN
  /\ leg[p].pc = "idle"
  /\ \A q \in LegacyCalls : CallOrder(q) < CallOrder(p) => leg[q].pc # "idle"
  /\ started < MaxOps
  /\ started' = started + 1
  /\ leg' = [leg EXCEPT ![p] =
               IF ValidationValid(u, w[1], w[2], attendance, lateDays)
               THEN [c EXCEPT !.pc = "find"]
               ELSE [LegacyDone(c, 422, <<>>) EXCEPT
                       !.violations = Violations(u, w[1], w[2], attendance, lateDays)]]
  /\ UNCHANGED <<db, sub, dec, wrk, fnRuns>>

\* runWithIdempotency lines 4-7: an existing row, completed or not, ends
\* the call with its response_body
LegacyFind(p) ==
  LET c == leg[p]
      row == idempotencyKeys[c.key]
  IN
  /\ c.pc = "find"
  /\ leg' = [leg EXCEPT ![p] = IF row.exists THEN LegacyDone(c, 200, row.response_body)
                               ELSE [c EXCEPT !.pc = "create"]]
  /\ UNCHANGED <<db, sub, dec, wrk, fnRuns, started>>

\* Variant: a key column without the primary key, every insert is accepted
KeyExistsNoConstraint(k) == FALSE

\* IdempotencyKey_pkey: PRIMARY KEY (key)
KeyExists(k) == idempotencyKeys[k].exists

\* runWithIdempotency lines 9-11: the placeholder insert; a second insert of
\* the key fails on the primary key and the error leaves the handler as 500
LegacyCreateKey(p) ==
  LET c == leg[p] IN
  /\ c.pc = "create"
  /\ IF KeyExists(c.key)
     THEN /\ leg' = [leg EXCEPT ![p] = LegacyDone(c, 500, <<>>)]
          /\ UNCHANGED idempotencyKeys
     ELSE /\ idempotencyKeys' = [idempotencyKeys EXCEPT ![c.key] =
                                   [exists |-> TRUE, response_body |-> <<>>]]
          /\ leg' = [leg EXCEPT ![p].pc = "fn"]
  /\ UNCHANGED <<orphanSteps, requests, approvalSteps, auditEntries, sub, dec, wrk, fnRuns, started>>

\* runWithIdempotency line 13 and route lines 118-140: fn is entered and
\* runs the SELECT ... FOR UPDATE overlap check of its transaction
LegacyFnCheck(p) ==
  LET c == leg[p] IN
  /\ c.pc = "fn"
  /\ fnRuns' = [fnRuns EXCEPT ![c.key] = @ + 1]
  /\ leg' = [leg EXCEPT ![p] = IF OverlapIds(c.userId, c.start, c.end) # {}
                               THEN LegacyDone(c, 422, <<>>)
                               ELSE [c EXCEPT !.pc = "insert"]]
  /\ UNCHANGED <<db, sub, dec, wrk, started>>

\* Route lines 159-173: steps are written only when a chain is configured
LegacyStepsFor(chain) == [k \in 1..Len(chain.steps) |-> NewStep(chain.steps[k])]

LegacyAudit(id, s, e) ==
  AuditRow("OvertimeRequest", RequestEntity(id), "INSERT", Sha256(1, id, s, e), NullHash)

\* Route lines 142-188: insert, steps, audit entry, commit
LegacyFnInsert(p, chain) ==
  LET c == leg[p]
      id == Len(requests) + 1
  IN
  /\ c.pc = "insert"
  /\ IF UniqueIndexViolation(c.userId, c.start, c.end)
     THEN /\ leg' = [leg EXCEPT ![p] = LegacyDone(c, 500, <<>>)]
          /\ UNCHANGED <<requests, approvalSteps, auditEntries>>
     ELSE /\ requests' = Append(requests, NewRequest(c.userId, c.start, c.end, "SUBMITTED"))
          /\ approvalSteps' = Append(approvalSteps, LegacyStepsFor(chain))
          /\ auditEntries' = Append(auditEntries, LegacyAudit(id, c.start, c.end))
          /\ leg' = [leg EXCEPT ![p].pc = "update", ![p].body = <<id>>]
  /\ UNCHANGED <<orphanSteps, idempotencyKeys, sub, dec, wrk, fnRuns, started>>

\* runWithIdempotency lines 15-16 and route line 196
LegacyUpdateKey(p) ==
  LET c == leg[p] IN
  /\ c.pc = "update"
  /\ idempotencyKeys' = [idempotencyKeys EXCEPT ![c.key].response_body = c.body]
  /\ leg' = [leg EXCEPT ![p] = LegacyDone(c, 201, c.body)]
  /\ UNCHANGED <<orphanSteps, requests, approvalSteps, auditEntries, sub, dec, wrk, fnRuns, started>>

\* The process dies between two awaits of the gate: after the placeholder
\* insert, inside fn, or before the result is stored.
LegacyCrash(p) ==
  /\ leg[p].pc \in {"fn", "insert", "update"}
  /\ leg' = [leg EXCEPT ![p] = [LegacyDone(leg[p], 0, <<>>) EXCEPT !.pc = "crashed"]]
  /\ UNCHANGED <<db, sub, dec, wrk, fnRuns, started>>

LegacySubmit ==
  \E p \in LegacyCalls :
    \/ \E u \in Users, k \in Keys, w \in Windows, attendance \in BOOLEAN, lateDays \in BOOLEAN :
         LegacyValidate(p, u, k, w, attendance, lateDays)
    \/ LegacyFind(p)
    \/ LegacyCreateKey(p)
    \/ LegacyFnCheck(p)
    \/ \E chain \in ChainOutcomes : LegacyFnInsert(p, chain)
    \/ LegacyUpdateKey(p)
    \/ LegacyCrash(p)

----------------------------------------------------------------------------

Init ==
  /\ requests = <<>>
  /\ approvalSteps = <<>>
  /\ auditEntries = <<>>
  /\ idempotencyKeys = [k \in Keys |-> [exists |-> FALSE, response_body |-> <<>>]]
  /\ orphanSteps = <<>>
  /\ sub = [p \in SubmitCalls |-> IdleSub]
  /\ dec = [p \in DecideCalls |-> IdleDec]
  /\ wrk = [p \in Workers |-> IdleWrk]
  /\ leg = [p \in LegacyCalls |-> IdleLeg]
  /\ fnRuns = [k \in Keys |-> 0]
  /\ started = 0

Next == Submit \/ Decide \/ Worker

\* The deployed handlers: submit, decide and the worker on one store
Spec == Init /\ [][Next]_vars

\* One submitter and the approvers
SpecDecide == Init /\ [][SubmitCall("s1") \/ Decide]_vars

\* Clients of the gate-wrapped submit
SpecIdem == Init /\ [][LegacySubmit]_vars

\* Submits of one owner over a day
SpecDay == Init /\ [][\E p \in SubmitCalls : SubmitCallOn(p, DayWindows)]_vars

\* An owner who has two committed requests of the daily maximum earlier in
\* the week, each with the steps of the configured chain
InitWeek ==
  /\ requests = <<NewRequest("u1", 0, 2, "SUBMITTED"), NewRequest("u1", 3, 5, "SUBMITTED")>>
  /\ approvalSteps = <<StepsFor([found |-> TRUE, steps |-> <<"m1", "m2">>]),
                       StepsFor([found |-> TRUE, steps |-> <<"m1", "m2">>])>>
  /\ auditEntries = <<CreateAudit(1, 0, 2), CreateAudit(2, 3, 5)>>
  /\ idempotencyKeys = [k \in Keys |-> [exists |-> FALSE, response_body |-> <<>>]]
  /\ orphanSteps = <<>>
  /\ sub = [p \in SubmitCalls |-> IdleSub]
  /\ dec = [p \in DecideCalls |-> IdleDec]
  /\ wrk = [p \in Workers |-> IdleWrk]
  /\ leg = [p \in LegacyCalls |-> IdleLeg]
  /\ fnRuns = [k \in Keys |-> 0]
  /\ started = 0

\* Submits of that owner over the week
SpecWeek == InitWeek /\ [][\E p \in SubmitCalls : SubmitCallOn(p, WeekWindows)]_vars

\* One submitter and the worker runs
SpecSweep == Init /\ [][SubmitCall("s1") \/ Worker]_vars

\* One submitter, the approvers, and one worker process run over and over,
\* each run after the one before: a run that has a step to take takes it
LiveNext ==
  \/ SubmitCall("s1")
  \/ Decide
  \/ \E u \in Users, w \in Windows : InsertDraft(u, w)
  \/ SweepRun("w1")

SpecLive == Init /\ [][LiveNext]_vars /\ WF_vars(SweepRun("w1"))

----------------------------------------------------------------------------
(* Properties *)

Done201(c) == c.pc = "done" /\ c.code = 201

\* C1: no two committed requests of one owner that are both active and in a
\* status outside REJECTED, CANCELED, EXPIRED have intersecting windows;
\* stated for the requests that two submit calls created.
C1_NonOverlap ==
  \A p, q \in SubmitCalls :
    (p # q /\ Done201(sub[p]) /\ Done201(sub[q])) =>
      LET a == requests[sub[p].body]
          b == requests[sub[q].body]
      IN ~(/\ a.userId = b.userId
           /\ Blocking(a) /\ Blocking(b)
           /\ RangeOverlapOpen(a.start_time, a.end_time, b.start_time, b.end_time))

\* C2: submit calls that carry the same idempotency key create one request
\* between them and return the same payload: a call that is under way when
\* another call with its key has answered 201 ends with that same payload.
C2_ExactlyOnce ==
  [][\A p, q \in SubmitCalls :
       (/\ p # q
        /\ Done201(sub[q])
        /\ sub[p].pc \in {"precheck", "insert", "store"}
        /\ sub[p].key = sub[q].key
        /\ sub'[p].pc = "done") =>
         /\ sub'[p].code \in {200, 201}
         /\ sub'[p].body = sub[q].body]_vars

DecideOk(c) == c.pc = "done" /\ c.code = 200

\* C3: of two decide calls on the same step that both carry the row_version
\* they read, at most one succeeds.
C3_OneWinner ==
  \A p, q \in DecideCalls :
    (/\ p # q
     /\ DecideOk(dec[p]) /\ DecideOk(dec[q])
     /\ dec[p].row_version # 0 /\ dec[q].row_version # 0
     /\ dec[p].requestId = dec[q].requestId) =>
      dec[p].step_order # dec[q].step_order

Entities == {<<a.entity_table, a.entity_id>> : a \in {auditEntries[n] : n \in DOMAIN auditEntries}}

ChainLinked(chain) ==
  /\ chain[1].previous_sha256 = NullHash
  /\ \A n \in 2..Len(chain) : chain[n].previous_sha256 = chain[n - 1].sha256

\* C4: the audit entries of every entity form one gap-free chain: the first
\* has previous_sha256 = null, each later one names the sha256 of the entry
\* before it.
C4_AuditChain == \A e \in Entities : ChainLinked(ChainOf(e[1], e[2]))

\* C5: a decide call that finds the request REJECTED ends with a 4xx error
\* and changes no step, request or audit row.
C5_ClosedAfterReject ==
  [][\A p \in DecideCalls :
       (dec[p].pc = "tx" /\ dec[p].readStatus = "REJECTED" /\ DecideTx(p)) =>
         /\ dec'[p].code \in 400..499
         /\ UNCHANGED <<requests, approvalSteps, auditEntries>>]_vars

\* C6: a decide transaction with decision REJECTED leaves the parent request
\* REJECTED, whichever step it decides and however many steps stay PENDING.
C6_RejectShortCircuits ==
  [][\A p \in DecideCalls :
       (DecideTx(p) /\ dec[p].status = "REJECTED") =>
         /\ requests'[dec[p].requestId].status = "REJECTED"
         /\ dec'[p].res_request_status = "REJECTED"]_vars

\* A first-step rejection has committed while the second step is PENDING
C6_Witness ==
  \E p \in DecideCalls :
    /\ DecideOk(dec[p]) /\ dec[p].status = "REJECTED" /\ dec[p].step_order = 1
    /\ approvalSteps[dec[p].requestId][1].status = "REJECTED"
    /\ approvalSteps[dec[p].requestId][2].status = "PENDING"
    /\ requests[dec[p].requestId].status = "REJECTED"

\* C7: a submit that comes in alone, passes every other rule and overlaps a
\* committed SUBMITTED request of its owner ends only with 409 and the ids
\* of the requests in conflict.
C7_OverlapIs409 ==
  [][\A p \in SubmitCalls, u \in Users, k \in Keys, w \in Windows :
       (/\ SubmitLookup(p, u, k, w, TRUE, FALSE)
        /\ \A q \in SubmitCalls : sub[q].pc \in {"idle", "done"}
        /\ ~KeyCompleted(k)
        /\ \E i \in ReqIds :
             /\ requests[i].userId = u /\ requests[i].status = "SUBMITTED"
             /\ requests[i].is_active
             /\ RangeOverlapOpen(requests[i].start_time, requests[i].end_time, w[1], w[2])
        /\ ~DailyViolation(w[1], w[2]) /\ ~WeeklyViolation(u, w[1], w[2])
        /\ sub'[p].pc = "done") =>
         /\ sub'[p].code = 409
         /\ sub'[p].conflicting_ids = OverlapIds(u, w[1], w[2])]_vars

\* C8: a submit that arrives when its key holds the stored response of a
\* completed submit returns that response.
C8_RetryReturnsStored ==
  \A p \in LegacyCalls :
    (leg[p].pc = "done" /\ leg[p].retry) =>
      leg[p].code = 200 /\ leg[p].body = idempotencyKeys[leg[p].key].response_body

\* C9: for every key, runWithIdempotency invokes fn at most once over all
\* calls, whether fn throws or the process dies after the placeholder insert.
C9_FnAtMostOnce == \A k \in Keys : fnRuns[k] <= 1

\* One caller died with the placeholder written and fn entered; a second
\* caller with the same key was answered from the placeholder.
C9_Witness ==
  \E p, q \in LegacyCalls :
    /\ leg[p].pc = "crashed" /\ leg[q].pc = "done"
    /\ leg[p].key = leg[q].key
    /\ leg[q].code = 200 /\ leg[q].body = <<>>
    /\ fnRuns[leg[p].key] = 1

\* C10: a decide transaction writes only when the call supplied no
\* row_version or the one the request has at that moment.
C10_VersionChecked ==
  [][\A p \in DecideCalls :
       DecideTx(p) =>
         \/ dec[p].row_version = 0
         \/ dec[p].row_version = requests[dec[p].requestId].row_version]_vars

\* C11: a decide transaction writes a step only while the step is PENDING: a
\* step that is APPROVED, REJECTED or SKIPPED is not decided again.
C11_NoRedecide ==
  [][\A p \in DecideCalls :
       DecideTx(p) =>
         approvalSteps[dec[p].requestId][dec[p].step_order].status = "PENDING"]_vars

\* C12: a decide call by an actor other than the approver assigned to the
\* step ends with AuthorizationError (403) and changes no row.
C12_OnlyAssignedApprover ==
  [][\A p \in DecideCalls, rid \in ReqIds, order \in 1..3, status \in Decisions,
        actor \in Approvers :
       \A version \in VersionInputs(rid) :
         (/\ DecideRead(p, rid, order, status, version, actor)
          /\ order \in DOMAIN approvalSteps[rid]
          /\ approvalSteps[rid][order].approver_id # actor) =>
           /\ dec'[p].pc = "done"
           /\ dec'[p].code = 403
           /\ dec'[p].error = "AuthorizationError"
           /\ UNCHANGED db]_vars

\* A call was refused with 403 on a request whose steps name approvers
C12_Witness ==
  \E p \in DecideCalls :
    /\ dec[p].pc = "done" /\ dec[p].code = 403 /\ dec[p].error = "AuthorizationError"
    /\ \E i \in ReqIds : \E k \in DOMAIN approvalSteps[i] :
         approvalSteps[i][k].approver_id \in Approvers

\* C13: every PENDING step without a fixed approver can be decided by some
\* authenticated actor: the read admits that actor's call to the transaction.
C13_RoleBoundDecidable ==
  \A i \in ReqIds : \A k \in DOMAIN approvalSteps[i] :
    (approvalSteps[i][k].approver_id = NullApprover /\ approvalSteps[i][k].status = "PENDING") =>
      \E actor \in Approvers :
        DecideReadResult([IdleDec EXCEPT !.requestId = i, !.step_order = k,
                                         !.actor = actor]).pc = "tx"

TerminalStatus == {"APPROVED", "REJECTED", "EXPIRED", "CANCELED"}

\* C14: a committed APPROVED decision sets the request APPROVED with
\* current_level = max_level when no step is PENDING afterwards; otherwise it
\* leaves status and current_level as they were and the request non-terminal.
C14_ApprovedDecision ==
  [][\A p \in DecideCalls :
       (DecideTx(p) /\ dec[p].status = "APPROVED") =>
         LET rid == dec[p].requestId IN
         IF PendingSteps(approvalSteps'[rid]) = {}
         THEN /\ requests'[rid].status = "APPROVED"
              /\ requests'[rid].current_level = requests'[rid].max_level
         ELSE /\ requests'[rid].status = requests[rid].status
              /\ requests'[rid].current_level = requests[rid].current_level
              /\ requests'[rid].status \notin TerminalStatus]_vars

\* C15: a decide transaction commits on step k only when no step of lower
\* order of the same request is PENDING.
C15_LowestPendingFirst ==
  [][\A p \in DecideCalls :
       DecideTx(p) =>
         \A j \in 1..(dec[p].step_order - 1) :
           approvalSteps[dec[p].requestId][j].status # "PENDING"]_vars

\* C16: a request whose status is APPROVED, REJECTED, EXPIRED or CANCELED
\* keeps that status in every step.
C16_TerminalAbsorbing ==
  [][\A i \in ReqIds :
       requests[i].status \in TerminalStatus =>
         requests'[i].status = requests[i].status]_vars

\* C17: a submit call that ends with an error leaves no request row, no
\* approval step and no audit entry behind.
C17_SubmitAtomic ==
  [][\A p \in SubmitCalls :
       (sub[p].pc \in {"precheck", "insert"} /\ sub'[p].pc = "done" /\ sub'[p].code >= 400) =>
         UNCHANGED <<requests, approvalSteps, auditEntries, orphanSteps>>]_vars

AuditCount(log, table, entity) ==
  Cardinality({n \in DOMAIN log : log[n].entity_table = table /\ log[n].entity_id = entity})

\* C18: a committed submit leaves a SUBMITTED request with at least one
\* approval step, all steps PENDING, and one CREATE audit entry.
C18_SubmitShape ==
  [][\A p \in SubmitCalls :
       (sub[p].pc = "insert" /\ sub'[p].pc = "store") =>
         LET id == sub'[p].body IN
         /\ requests'[id].status = "SUBMITTED"
         /\ approvalSteps'[id] # <<>>
         /\ \A k \in DOMAIN approvalSteps'[id] : approvalSteps'[id][k].status = "PENDING"
         /\ AuditCount(auditEntries', "OvertimeRequest", RequestEntity(id)) = 1]_vars

\* C19: every step that changes the status of a request adds exactly one
\* audit entry for that request, and every step that changes the status of
\* an approval step adds exactly one audit entry for that approval step.
C19_AuditPerChange ==
  [][\A i \in ReqIds :
       /\ requests'[i].status # requests[i].status =>
            AuditCount(auditEntries', "OvertimeRequest", RequestEntity(i))
              = AuditCount(auditEntries, "OvertimeRequest", RequestEntity(i)) + 1
       /\ \A k \in DOMAIN approvalSteps[i] :
            approvalSteps'[i][k].status # approvalSteps[i][k].status =>
              AuditCount(auditEntries', "ApprovalStep", StepEntity(i, k))
                = AuditCount(auditEntries, "ApprovalStep", StepEntity(i, k)) + 1]_vars

\* Minutes of the owner's blocking requests of the day
DayMinutes(u) ==
  SumSeq([i \in ReqIds |->
            IF requests[i].userId = u /\ Blocking(requests[i])
            THEN requests[i].total_minutes ELSE 0])

\* C20: a submit that comes in alone, touches no existing window and whose
\* duration added to the owner's total of the day exceeds the daily cap is
\* rejected by the validation.
C20_DailyCap ==
  [][\A p \in SubmitCalls, u \in Users, k \in Keys, w \in DayWindows :
       (/\ SubmitLookup(p, u, k, w, TRUE, FALSE)
        /\ \A q \in SubmitCalls : sub[q].pc \in {"idle", "done"}
        /\ ~KeyCompleted(k)
        /\ OverlapIds(u, w[1], w[2]) = {}
        /\ DayMinutes(u) + DurationMin(w[1], w[2]) > maxOvertimePerDay) =>
         sub'[p].pc = "done" /\ sub'[p].code >= 400]_vars

\* C21: the minutes of an owner's active requests outside REJECTED, CANCELED
\* and EXPIRED within the week never exceed the weekly cap.
C21_WeeklyCap == \A u \in Users : WeeklyMinutes(u) <= maxOvertimePerWeek

\* C22: a submit that violates two or more business rules is answered with
\* an error that lists every violated rule.
C22_AllViolationsListed ==
  [][\A p \in SubmitCalls, u \in Users, k \in Keys, w \in Windows,
        attendance \in BOOLEAN, lateDays \in BOOLEAN :
       (/\ SubmitLookup(p, u, k, w, attendance, lateDays)
        /\ ~KeyCompleted(k)
        /\ Cardinality(Violations(u, w[1], w[2], attendance, lateDays)) >= 2) =>
         /\ sub'[p].pc = "done"
         /\ sub'[p].violations = Violations(u, w[1], w[2], attendance, lateDays)]_vars

\* Audit entries of one action written for an entity
ActionCount(entity, action) ==
  Cardinality({n \in DOMAIN auditEntries :
                 auditEntries[n].entity_id = entity /\ auditEntries[n].action = action})

\* C23: whatever worker runs took place, one after the other or at the same
\* time, a request was expired at most once and a step escalated at most
\* once: each has at most one EXPIRE or ESCALATE audit entry.
C23_SweepOnce ==
  \A i \in ReqIds :
    /\ ActionCount(RequestEntity(i), "EXPIRE") <= 1
    /\ \A k \in DOMAIN approvalSteps[i] : ActionCount(StepEntity(i, k), "ESCALATE") <= 1

\* C24: the escalation job does not touch a step that an approver decided
\* after the job selected it: the step keeps the approver's status and the
\* request the status that the decision produced.
C24_SweepKeepsDecision ==
  [][\A p \in Workers :
       (WorkerEscalate(p) /\ wrk[p].stalled # {}) =>
         LET e == FirstOf(wrk[p].stalled) IN
         approvalSteps[e[1]][e[2]].status \in Decisions =>
           /\ approvalSteps'[e[1]][e[2]].status = approvalSteps[e[1]][e[2]].status
           /\ requests'[e[1]].status = requests[e[1]].status]_vars

\* C25: in every step, the row_version of a request or approval step grows
\* by exactly 1 when the row's status changes and stays as it is otherwise.
C25_VersionCountsTransitions ==
  [][\A i \in ReqIds :
       /\ requests'[i].row_version =
            requests[i].row_version + (IF requests'[i].status # requests[i].status THEN 1 ELSE 0)
       /\ \A k \in DOMAIN approvalSteps[i] :
            approvalSteps'[i][k].row_version =
              approvalSteps[i][k].row_version
                + (IF approvalSteps'[i][k].status # approvalSteps[i][k].status THEN 1 ELSE 0)]_vars

\* C26: a transaction of the draft-expiration job acts on a request that is
\* DRAFT and active, sets it to EXPIRED with one EXPIRE audit entry, and
\* leaves every other request and every approval step as they were.
C26_ExpireFrame ==
  [][\A p \in Workers :
       (WorkerExpire(p) /\ wrk[p].drafts # {}) =>
         LET id == FirstOf(wrk[p].drafts \X {0})[1] IN
         /\ requests[id].status = "DRAFT" /\ requests[id].is_active
         /\ requests'[id].status = "EXPIRED"
         /\ ActionCount(RequestEntity(id), "EXPIRE") = 0
         /\ auditEntries' = Append(auditEntries, ExpireAudit(id))
         /\ \A j \in ReqIds \ {id} : requests'[j] = requests[j]
         /\ approvalSteps' = approvalSteps]_vars

TouchIds(u, s, e) ==
  {i \in ReqIds : /\ requests[i].userId = u
                  /\ Blocking(requests[i])
                  /\ (requests[i].end_time = s \/ requests[i].start_time = e)}

TerminalOverlapIds(u, s, e) ==
  {i \in ReqIds : /\ requests[i].userId = u
                  /\ requests[i].is_active
                  /\ requests[i].status \in NotBlocking
                  /\ RangeOverlapClosed(requests[i].start_time, requests[i].end_time, s, e)}

\* C29: when the only requests of the owner that intersect a submit's window
\* are REJECTED, CANCELED or EXPIRED and the submit breaks no business rule,
\* the call passes the validation, the unique index accepts its row, and its
\* insert commits.
C29_TerminalNeverBlocks ==
  [][\A p \in SubmitCalls :
       /\ \A u \in Users, k \in Keys, w \in Windows :
            (/\ SubmitLookup(p, u, k, w, TRUE, FALSE)
             /\ ~KeyCompleted(k)
             /\ TerminalOverlapIds(u, w[1], w[2]) # {}
             /\ OverlapIds(u, w[1], w[2]) = {}
             /\ Violations(u, w[1], w[2], TRUE, FALSE) = {}) =>
              /\ sub'[p].pc = "precheck"
              /\ ~UniqueIndexViolation(u, w[1], w[2])
       /\ \A chain \in ChainOutcomes :
            (/\ SubmitInsert(p, chain, TRUE)
             /\ TerminalOverlapIds(sub[p].userId, sub[p].start, sub[p].end) # {}
             /\ OverlapIds(sub[p].userId, sub[p].start, sub[p].end) = {}) =>
              sub'[p].pc = "store"]_vars

\* C30: with the worker running again and again, every committed request
\* with approval steps that is SUBMITTED reaches APPROVED, REJECTED, EXPIRED
\* or CANCELED.
C30_Progress ==
  \A i \in 1..MaxOps :
    (i \in ReqIds /\ requests[i].status = "SUBMITTED" /\ approvalSteps[i] # <<>>)
      ~> (i \in ReqIds /\ requests[i].status \in TerminalStatus)

====
